---- MODULE Spec2Model ----
(***************************************************************************)
(* Model of scripts/merge_lemmas.py, the Oracc transcription comparator.   *)
(*                                                                         *)
(* A Python string is a sequence of characters.  An ASCII character is the *)
(* one-character string holding it; a non-ASCII character is named by its  *)
(* code point: "U+014B" is the letter eng, "U+014A" its capital, "U+2082"  *)
(* the subscript two, "U+0161" s with caron, "U+0160" its capital.         *)
(* A Python list is a sequence, a Python dict is the sequence of its       *)
(* <<key, value>> items in insertion order.                                *)
(***************************************************************************)
EXTENDS Integers, Sequences, FiniteSets, TLC

VARIABLES
    pc,          \* position of the running script or of the called function
    args,        \* arguments of the function under call
    result,      \* values returned so far by the function under call
    data,        \* module global `data`: the lemma store
    dictionary,  \* module global `dictionary`: the edge mapping
    raised,      \* exception that ended the last call, "" when none
    stdout,      \* lines printed by print_results
    calls,       \* number of compare calls made
    merges       \* number of merge_entries calls made

vars == <<pc, args, result, data, dictionary, raised, stdout, calls,
         merges>>

(***************************************************************************)
(* Characters and strings                                                  *)
(***************************************************************************)

\* str.lower() on one character
Lower(c) ==
    CASE c = "A" -> "a" [] c = "B" -> "b" [] c = "C" -> "c" [] c = "D" -> "d"
      [] c = "E" -> "e" [] c = "F" -> "f" [] c = "G" -> "g" [] c = "H" -> "h"
      [] c = "I" -> "i" [] c = "J" -> "j" [] c = "K" -> "k" [] c = "L" -> "l"
      [] c = "M" -> "m" [] c = "N" -> "n" [] c = "O" -> "o" [] c = "P" -> "p"
      [] c = "Q" -> "q" [] c = "R" -> "r" [] c = "S" -> "s" [] c = "T" -> "t"
      [] c = "U" -> "u" [] c = "V" -> "v" [] c = "W" -> "w" [] c = "X" -> "x"
      [] c = "Y" -> "y" [] c = "Z" -> "z"
      [] c = "U+014A" -> "U+014B"
      [] c = "U+0160" -> "U+0161"
      [] OTHER -> c

\* str.lower() on a string
lower(s) == [i \in 1..Len(s) |-> Lower(s[i])]

\* s[k:] for 0 <= k
Drop(s, k) == SubSeq(s, k + 1, Len(s))

\* s.startswith(p)
StartsWith(s, p) == Len(s) >= Len(p) /\ SubSeq(s, 1, Len(p)) = p

Min2(a, b) == IF a <= b THEN a ELSE b

\* min(a, b, c)
Min3(a, b, c) == Min2(a, Min2(b, c))

(***************************************************************************)
(* hamming, levenshtein, score_strings                                     *)
(***************************************************************************)

RECURSIVE hamming(_, _)
\* sum(e1 != e2 for e1, e2 in zip(s1, s2)): zip stops at the shorter string
hamming(s1, s2) ==
    IF s1 = <<>> \/ s2 = <<>> THEN 0
    ELSE (IF Head(s1) # Head(s2) THEN 1 ELSE 0) + hamming(Tail(s1), Tail(s2))

RECURSIVE lev_row(_, _, _, _, _)
\* the same loop with the substitution cost read one column too far
lev_row_shifted(c1, s2, previous_row, current_row, j) ==
    IF j >= Len(s2) THEN current_row
    ELSE LET insertions    == previous_row[j + 2] + 1
             deletions     == current_row[j + 1] + 1
             substitutions == previous_row[j + 2]
                                  + (IF c1 # s2[j + 1] THEN 1 ELSE 0)
         IN  lev_row(c1, s2, previous_row,
                     Append(current_row,
                            Min3(insertions, deletions, substitutions)),
                     j + 1)

\* the inner loop `for j, c2 in enumerate(s2)`; j is the 0-based index,
\* row[k] of Python is row[k + 1] here
lev_row(c1, s2, previous_row, current_row, j) ==
    IF j >= Len(s2) THEN current_row
    ELSE LET insertions    == previous_row[j + 2] + 1
             deletions     == current_row[j + 1] + 1
             substitutions == previous_row[j + 1]
                                  + (IF c1 # s2[j + 1] THEN 1 ELSE 0)
         IN  lev_row(c1, s2, previous_row,
                     Append(current_row,
                            Min3(insertions, deletions, substitutions)),
                     j + 1)

RECURSIVE lev_rows(_, _, _, _)
\* the outer loop `for i, c1 in enumerate(s1)`; yields the last previous_row
lev_rows(s1, s2, previous_row, i) ==
    IF i >= Len(s1) THEN previous_row
    ELSE lev_rows(s1, s2, lev_row(s1[i + 1], s2, previous_row, <<i + 1>>, 0),
                  i + 1)

RECURSIVE levenshtein(_, _)
levenshtein(s1, s2) ==
    IF Len(s1) < Len(s2) THEN levenshtein(s2, s1)
    ELSE IF Len(s2) = 0 THEN Len(s1)
    ELSE LET last == lev_rows(s1, s2, [k \in 1..(Len(s2) + 1) |-> k - 1], 0)
         IN  last[Len(last)]

\* score_strings that lowercases its first argument only
score_strings_lower_first(w1, w2) ==
    IF Len(w1) = Len(w2) THEN hamming(lower(w1), w2)
    ELSE levenshtein(lower(w1), w2)

score_strings(w1, w2) ==
    IF Len(w1) = Len(w2) THEN hamming(lower(w1), lower(w2))
    ELSE levenshtein(lower(w1), lower(w2))

(***************************************************************************)
(* f_xlit                                                                  *)
(***************************************************************************)

URU == <<"{", "U", "R", "U", "}">>
KUR == <<"{", "K", "U", "R", "}">>
KI  == <<"{", "K", "I", "}">>

\* the character class of the ten subscript digits
SubscriptDigits ==
    {"U+2080", "U+2081", "U+2082", "U+2083", "U+2084",
     "U+2085", "U+2086", "U+2087", "U+2088", "U+2089"}

RECURSIVE sub_markers(_)
\* re.sub('\{URU\}|\{KUR\}|\{KI\}|[subscripts]', '', x): leftmost matches,
\* alternatives tried in order, scanning resumes after each match
sub_markers(x) ==
    IF x = <<>> THEN <<>>
    ELSE IF StartsWith(x, URU) THEN sub_markers(Drop(x, Len(URU)))
    ELSE IF StartsWith(x, KUR) THEN sub_markers(Drop(x, Len(KUR)))
    ELSE IF StartsWith(x, KI) THEN sub_markers(Drop(x, Len(KI)))
    ELSE IF Head(x) \in SubscriptDigits THEN sub_markers(Tail(x))
    ELSE <<Head(x)>> \o sub_markers(Tail(x))

\* re.sub('\.', '-', x)
sub_dot(x) == [i \in 1..Len(x) |-> IF x[i] = "." THEN "-" ELSE x[i]]

\* re.sub('\(|\)', '', x)
sub_paren(x) == SelectSeq(x, LAMBDA c : c \notin {"(", ")"})

\* re.sub(eng, 'g', x)
sub_eng(x) == [i \in 1..Len(x) |-> IF x[i] = "U+014B" THEN "g" ELSE x[i]]

\* f_xlit with the eng replacement done first, before any lowercasing
f_xlit_eng_first(x) ==
    sub_paren(sub_dot(lower(sub_markers(lower(sub_eng(x))))))

f_xlit(x) ==
    LET x1 == sub_markers(lower(x))
        x2 == sub_dot(lower(x1))
        x3 == sub_paren(x2)
    IN  sub_eng(x3)

(***************************************************************************)
(* Strings, numbers and dicts as read_file and the reporter use them       *)
(***************************************************************************)

\* the characters \d and [0-9] match in the model's inputs
Digits == {"0", "1", "2", "3", "4", "5", "6", "7", "8", "9"}

DigitValue(c) ==
    CASE c = "0" -> 0 [] c = "1" -> 1 [] c = "2" -> 2 [] c = "3" -> 3
      [] c = "4" -> 4 [] c = "5" -> 5 [] c = "6" -> 6 [] c = "7" -> 7
      [] c = "8" -> 8 [] c = "9" -> 9

\* the characters str.strip() removes
Whitespace == {" ", "\t"}

RECURSIVE lstrip(_)
lstrip(l) ==
    IF l # <<>> /\ Head(l) \in Whitespace THEN lstrip(Tail(l)) ELSE l

RECURSIVE rstrip(_)
rstrip(l) ==
    IF l # <<>> /\ l[Len(l)] \in Whitespace
    THEN rstrip(SubSeq(l, 1, Len(l) - 1)) ELSE l

\* l.strip()
strip(l) == rstrip(lstrip(l))

RECURSIVE split_from(_, _, _)
\* the fields of s after the field begun as cur
split_from(s, sep, cur) ==
    IF s = <<>> THEN <<cur>>
    ELSE IF StartsWith(s, sep)
         THEN <<cur>> \o split_from(Drop(s, Len(sep)), sep, <<>>)
         ELSE split_from(Tail(s), sep, Append(cur, Head(s)))

\* s.split(sep) for a non-empty separator string
split(s, sep) == split_from(s, sep, <<>>)

RECURSIVE join(_, _)
\* sep.join(ss)
join(sep, ss) ==
    IF ss = <<>> THEN <<>>
    ELSE IF Len(ss) = 1 THEN ss[1]
    ELSE ss[1] \o sep \o join(sep, Tail(ss))

\* whether int(s) accepts s: a non-empty run of digits (the model's lines
\* carry no sign, underscore or inner whitespace next to a number)
int_ok(s) == s # <<>> /\ \A i \in 1..Len(s) : s[i] \in Digits

RECURSIVE int(_)
\* int(s) of a run of digits
int(s) ==
    IF s = <<>> THEN 0
    ELSE 10 * int(SubSeq(s, 1, Len(s) - 1)) + DigitValue(s[Len(s)])

DigitChar(d) == <<"0", "1", "2", "3", "4", "5", "6", "7", "8", "9">>[d + 1]

RECURSIVE format_i(_)
\* '%i' % n for n >= 0
format_i(n) ==
    IF n < 10 THEN <<DigitChar(n)>>
    ELSE format_i(n \div 10) \o <<DigitChar(n % 10)>>

\* d.keys()
dict_keys(d) == [i \in 1..Len(d) |-> d[i][1]]

\* k in d.keys()
dict_has(d, k) == \E i \in 1..Len(d) : d[i][1] = k

\* d[k] for a key that is present
dict_get(d, k) == d[CHOOSE i \in 1..Len(d) : d[i][1] = k][2]

\* d[k] = v: a present key keeps its position, a new key goes last
dict_set(d, k, v) ==
    IF dict_has(d, k)
    THEN [i \in 1..Len(d) |-> IF d[i][1] = k THEN <<k, v>> ELSE d[i]]
    ELSE Append(d, <<k, v>>)

\* a value of the mapping `dictionary` that is a list of lemmas
list_value(items) == [type |-> "list", value |-> items]

\* a value of the mapping `dictionary` that is a str
str_value(chars) == [type |-> "str", value |-> chars]

\* the str merge_entries leaves under an absorbed key
Absorbed == <<"_">>

\* the elements of a mapping value as a for loop, `in`, filter() and += see
\* them: the items of a list, the one-character strings of a str
elements(v) ==
    IF v.type = "list" THEN v.value
    ELSE [i \in 1..Len(v.value) |-> <<v.value[i]>>]

(***************************************************************************)
(* read_file                                                               *)
(***************************************************************************)

\* re.sub('^(\d+?).+', r'\1', l): the lazy group takes one digit and .+ the
\* rest of the line, which must hold at least one more character
sub_freq(l) ==
    IF Len(l) >= 2 /\ l[1] \in Digits THEN <<l[1]>> ELSE l

\* re.sub('[0-9 ]', '', s)
sub_digits_spaces(s) == SelectSeq(s, LAMBDA c : c \notin Digits \cup {" "})

\* s[1:-1]
slice_1_m1(s) == SubSeq(s, 2, Len(s) - 1)

\* the dict that results from d[k] = v done for the items <<k, v>> in turn:
\* a key stands where it was first set and holds the value set last
dict_of_items(items) ==
    LET firsts == SelectSeq([i \in 1..Len(items) |-> i],
                            LAMBDA i : \A j \in 1..(i - 1) :
                                           items[j][1] # items[i][1])
    IN  [k \in 1..Len(firsts) |->
            LET key  == items[firsts[k]][1]
                last == CHOOSE i \in 1..Len(items) :
                            /\ items[i][1] = key
                            /\ \A j \in (i + 1)..Len(items) :
                                   items[j][1] # key
            IN  <<key, items[last][2]>>]

\* the body of the loop of the 'freq' branch for one line: the exception
\* it raises ("" for none) and the item it sets
read_freq_line(line) ==
    LET l      == strip(line)
        number == sub_freq(l)
        fields == split(l, <<"\t">>)
    IN  IF ~int_ok(number)
        THEN [raised |-> "ValueError", item |-> <<>>]
        ELSE IF Len(fields) < 2
        THEN [raised |-> "IndexError", item |-> <<>>]
        ELSE LET freq  == int(number)
                 lemma == sub_digits_spaces(fields[1])
                 xlit  == split(slice_1_m1(fields[2]), <<",", " ">>)
             IN  [raised |-> "", item |-> <<lemma, <<freq, xlit>>>>]

\* the loop of the 'freq' branch: the first line that raises ends it, else
\* the dict set line after line is returned
read_freq(lines) ==
    LET parsed == [i \in 1..Len(lines) |-> read_freq_line(lines[i])]
        bad    == {i \in 1..Len(lines) : parsed[i].raised # ""}
    IN  IF bad # {}
        THEN [raised |-> parsed[CHOOSE i \in bad :
                                   \A j \in bad : i <= j].raised,
              value  |-> <<>>]
        ELSE [raised |-> "",
              value  |-> dict_of_items([i \in 1..Len(lines) |->
                                           parsed[i].item])]

\* the loop of the other branch: every line is a lemma without record
read_list(lines) ==
    [raised |-> "",
     value  |-> dict_of_items([i \in 1..Len(lines) |->
                                  <<lines[i], <<0, <<>>>>>>])]

\* read_file(fname, format_), lines being f.read().splitlines()
read_file(lines, format_) ==
    IF format_ = "freq" THEN read_freq(lines) ELSE read_list(lines)

(***************************************************************************)
(* compare_xlits                                                           *)
(***************************************************************************)

\* f_xlit(t) in [f_xlit(z) for z in s_xlits]
xlit_in(t, s_xlits) ==
    \E i \in 1..Len(s_xlits) : f_xlit(s_xlits[i]) = f_xlit(t)

RECURSIVE xlits_loop(_, _, _, _)
\* the loop `for t in t_xlits` for the suggestion s
xlits_loop(t_xlits, s, s_xlits, s_dict) ==
    IF t_xlits = <<>> THEN s_dict
    ELSE LET t == Head(t_xlits)
             next == IF xlit_in(t, s_xlits)
                     THEN IF ~dict_has(s_dict, s)
                          THEN dict_set(s_dict, s, <<"*">>)
                          ELSE dict_set(s_dict, s,
                                        Append(dict_get(s_dict, s), "*"))
                     ELSE IF ~dict_has(s_dict, s)
                          THEN dict_set(s_dict, s, <<>>)
                          ELSE s_dict
         IN  xlits_loop(Tail(t_xlits), s, s_xlits, next)

RECURSIVE suggestions_loop(_, _, _)
\* the loop `for s in suggestions`; data[s] of a suggestion absent from
\* the store raises KeyError
suggestions_loop(t_xlits, suggestions, s_dict) ==
    IF suggestions = <<>> THEN [raised |-> "", value |-> s_dict]
    ELSE LET s == Head(suggestions)
         IN  IF ~dict_has(data, s)
             THEN [raised |-> "KeyError", value |-> <<>>]
             ELSE suggestions_loop(t_xlits, Tail(suggestions),
                      xlits_loop(t_xlits, s, dict_get(data, s)[2], s_dict))

\* compare_xlits(target, suggestions); it reads the global `data`, and the
\* labels it returns are the keys of s_dict, each followed by its stars
compare_xlits(target, suggestions) ==
    IF ~dict_has(data, target) THEN [raised |-> "KeyError", value |-> <<>>]
    ELSE LET r == suggestions_loop(dict_get(data, target)[2],
                                   suggestions, <<>>)
         IN  IF r.raised # "" THEN r
             ELSE [raised |-> "",
                   value  |-> [i \in 1..Len(r.value) |->
                                  r.value[i][1] \o r.value[i][2]]]

(***************************************************************************)
(* Calls of score_strings on bounded strings                               *)
(***************************************************************************)

\* longest string handed to score_strings
MaxLen == 3

ScoreAlphabet == {"a", "A", "b", "B"}

\* all strings over alphabet of length at most n
StringsUpTo(alphabet, n) == UNION {[1..k -> alphabet] : k \in 0..n}

Idle ==
    /\ data = <<>>
    /\ dictionary = <<>>
    /\ raised = ""
    /\ stdout = <<>>
    /\ calls = 0
    /\ merges = 0

InitScore ==
    /\ pc = "score_strings"
    /\ args \in StringsUpTo(ScoreAlphabet, MaxLen)
                    \X StringsUpTo(ScoreAlphabet, MaxLen)
    /\ result = <<>>
    /\ Idle

CallScoreStrings ==
    /\ pc = "score_strings"
    /\ result' = <<score_strings(args[1], args[2])>>
    /\ pc' = "scored"
    /\ UNCHANGED <<args, data, dictionary, raised, stdout, calls, merges>>

NextScore == CallScoreStrings

SpecScore == InitScore /\ [][NextScore]_vars

RECURSIVE EditDistance(_, _)
\* the edit distance by its defining recurrence on the first characters
EditDistance(a, b) ==
    IF a = <<>> THEN Len(b)
    ELSE IF b = <<>> THEN Len(a)
    ELSE Min3(EditDistance(Tail(a), b) + 1,
              EditDistance(a, Tail(b)) + 1,
              EditDistance(Tail(a), Tail(b))
                  + (IF Head(a) # Head(b) THEN 1 ELSE 0))

\* the distance the scorer is specified to return
ReferenceDistance(a, b) ==
    IF Len(a) = Len(b)
    THEN Cardinality({i \in 1..Len(a) : Lower(a[i]) # Lower(b[i])})
    ELSE EditDistance(lower(a), lower(b))

\* C2: score_strings returns the Hamming distance of the lowercased strings
\* when the lengths are equal and their Levenshtein distance otherwise,
\* which is the length of the other string when one is empty.
ScoreIsReferenceDistance ==
    pc = "scored" => result[1] = ReferenceDistance(args[1], args[2])

\* a scored pair of different lengths and cases that needs an insertion and
\* a substitution
ScoreIsReferenceDistanceWitness ==
    /\ pc = "scored"
    /\ args = <<<<"A", "b">>, <<"b", "a", "a">>>>
    /\ result = <<2>>

\* C8: score_strings(a, b) = score_strings(b, a)
ScoreSymmetric ==
    pc = "scored" => result[1] = score_strings(args[2], args[1])

\* a scored pair of different lengths and cases with a non-zero distance
ScoreSymmetricWitness ==
    /\ pc = "scored"
    /\ args = <<<<"a", "B">>, <<"A">>>>
    /\ result = <<1>>

(***************************************************************************)
(* Calls of f_xlit on bounded spellings                                    *)
(***************************************************************************)

\* number of pieces a spelling handed to f_xlit is made of
MaxChunks == 3

XlitChunks ==
    {URU, KUR, KI, <<"a">>, <<"D", "U">>, <<".">>, <<"-">>, <<"(">>, <<")">>,
     <<"U+014B">>, <<"U+014A">>, <<"U+2082">>, <<"g">>}

RECURSIVE Concat(_)
\* the concatenation of a sequence of strings
Concat(ss) == IF ss = <<>> THEN <<>> ELSE Head(ss) \o Concat(Tail(ss))

\* the spellings made of at most n chunks
SpellingsUpTo(n) ==
    {Concat(cs) : cs \in UNION {[1..k -> XlitChunks] : k \in 0..n}}

InitXlit ==
    /\ pc = "f_xlit"
    /\ args \in {<<x>> : x \in SpellingsUpTo(MaxChunks)}
    /\ result = <<>>
    /\ Idle

\* f_xlit(x)
CallFXlit ==
    /\ pc = "f_xlit"
    /\ result' = <<f_xlit(args[1])>>
    /\ pc' = "normalized"
    /\ UNCHANGED <<args, data, dictionary, raised, stdout, calls, merges>>

\* f_xlit applied to the value the first call returned
CallFXlitAgain ==
    /\ pc = "normalized"
    /\ result' = Append(result, f_xlit(result[1]))
    /\ pc' = "renormalized"
    /\ UNCHANGED <<args, data, dictionary, raised, stdout, calls, merges>>

NextXlit == CallFXlit \/ CallFXlitAgain

SpecXlit == InitXlit /\ [][NextXlit]_vars

RECURSIVE DeleteDeterminatives(_)
\* the spelling without its {URU}, {KUR} and {KI} markers
DeleteDeterminatives(x) ==
    IF x = <<>> THEN <<>>
    ELSE IF StartsWith(x, URU) THEN DeleteDeterminatives(Drop(x, Len(URU)))
    ELSE IF StartsWith(x, KUR) THEN DeleteDeterminatives(Drop(x, Len(KUR)))
    ELSE IF StartsWith(x, KI) THEN DeleteDeterminatives(Drop(x, Len(KI)))
    ELSE <<Head(x)>> \o DeleteDeterminatives(Tail(x))

\* C4: f_xlit strips the determinative markers, so the key of a spelling is
\* the key of the same spelling written without them.
DeterminativesStripped ==
    pc = "normalized" => result[1] = f_xlit(DeleteDeterminatives(args[1]))

\* C9: f_xlit is idempotent, f_xlit(f_xlit(x)) = f_xlit(x).
XlitIdempotent ==
    pc = "renormalized" => result[2] = result[1]

\* a capital eng, a subscript and a dot, normalized twice
XlitIdempotentWitness ==
    /\ pc = "renormalized"
    /\ args = <<<<"U+014A", "U+2082", ".">>>>
    /\ result = <<<<"g", "-">>, <<"g", "-">>>>

(***************************************************************************)
(* Loading a file, and calls of compare_xlits on the loaded store          *)
(***************************************************************************)

\* the file name the script reads
FileName ==
    <<"p", "l", "a", "c", "e", "s", "_", "w", "i", "t", "h", "_",
      "t", "r", "a", "n", "s", "l", "i", "t", ".", "t", "x", "t">>

\* 'reading file %s...' % fname
reading_line(fname) ==
    <<"r", "e", "a", "d", "i", "n", "g", " ", "f", "i", "l", "e", " ">>
        \o fname \o <<".", ".", ".">>

\* data = read_file(fname, format_), the file holding the lines args[1];
\* an exception leaves `data` unassigned and ends the script
ReadFile ==
    /\ pc = "start"
    /\ LET r == read_file(args[1], args[2])
       IN  /\ stdout' = Append(stdout, reading_line(FileName))
           /\ raised' = r.raised
           /\ data' = r.value
           /\ pc' = IF r.raised = "" THEN "loaded" ELSE "aborted"
    /\ UNCHANGED <<args, result, dictionary, calls, merges>>

\* a line of the frequency format: number, lemma, tab, bracketed spellings
freq_line(number, lemma, xlits) ==
    number \o <<" ">> \o lemma \o <<"\t", "[">>
        \o join(<<",", " ">>, xlits) \o <<"]">>

\* most lines in a file handed to the annotator
MaxFileLines == 2

\* most candidates in a list handed to compare_xlits
MaxSuggestions == 2

AnnotateLines ==
    {freq_line(<<"2">>, <<"A", "b", "a">>,
               << <<"a", "-", "b">>, <<"c", "-", "d">> >>),
     freq_line(<<" ", " ", "1", "1">>, <<"A", "i", "a">>,
               << <<"A", "-", "B">> >>),
     freq_line(<<"1", "0", "3">>, <<"A", "r", "a">>,
               << <<"a", ".", "b">>, <<"a", "-", "b", "U+2082">> >>),
     freq_line(<<"7">>, <<"A", "z", "a">>, << <<"{", "K", "I", "}", "a">> >>),
     <<"A", "b", "a">>,
     <<"A", "i", "a">>}

\* the sequences of at most n elements of S
SeqsUpTo(S, n) == UNION {[1..k -> S] : k \in 0..n}

\* the sequences of at most n different elements of S
ArrangementsUpTo(S, n) ==
    {q \in SeqsUpTo(S, n) : \A i, j \in 1..Len(q) : i # j => q[i] # q[j]}

InitAnnotate ==
    /\ pc = "start"
    /\ args \in ArrangementsUpTo(AnnotateLines, MaxFileLines)
                    \X {"freq", "list"}
    /\ result = <<>>
    /\ Idle

\* compare_xlits(target, suggestions) for lemmas of the loaded store
CallCompareXlits ==
    /\ pc = "loaded"
    /\ \E target \in {data[i][1] : i \in 1..Len(data)} :
       \E suggestions \in SeqsUpTo({data[i][1] : i \in 1..Len(data)}
                                        \ {target}, MaxSuggestions) :
          /\ args' = <<target, suggestions>>
          /\ result' = <<compare_xlits(target, suggestions).value>>
          /\ raised' = compare_xlits(target, suggestions).raised
    /\ pc' = "annotated"
    /\ UNCHANGED <<data, dictionary, stdout, calls, merges>>

NextAnnotate == ReadFile \/ CallCompareXlits

SpecAnnotate == InitAnnotate /\ [][NextAnnotate]_vars

\* the value of the run of digits a stripped line begins with
LeadingDigitRun(l) ==
    LET n == Cardinality({k \in 1..Len(l) : \A i \in 1..k : l[i] \in Digits})
    IN  int(SubSeq(l, 1, n))

\* the lemma a line of the frequency format names
LineLemma(line) == sub_digits_spaces(split(strip(line), <<"\t">>)[1])

\* C7: the frequency stored for a lemma is the value of the whole leading
\* digit run of its line (of the last line naming the lemma).
FrequencyIsLeadingDigitRun ==
    (pc = "loaded" /\ args[2] = "freq") =>
        \A i \in 1..Len(args[1]) :
            (\A j \in (i + 1)..Len(args[1]) :
                 LineLemma(args[1][j]) # LineLemma(args[1][i]))
            => dict_get(data, LineLemma(args[1][i]))[1]
                   = LeadingDigitRun(strip(args[1][i]))

\* n asterisks
Stars(n) == [i \in 1..n |-> "*"]

\* the number of the target's spellings, counted with multiplicity, whose
\* key is the key of some spelling of the candidate s
MatchCount(target, s) ==
    LET t_xlits == dict_get(data, target)[2]
        s_xlits == dict_get(data, s)[2]
    IN  Cardinality({i \in 1..Len(t_xlits) :
                        \E j \in 1..Len(s_xlits) :
                            f_xlit(t_xlits[i]) = f_xlit(s_xlits[j])})

\* the sequence of labels holds the label
HasLabel(labels, label) == \E i \in 1..Len(labels) : labels[i] = label

\* C3: the asterisks attached to a candidate count the target's spellings,
\* each once, whose key is the key of some spelling of the candidate.
StarsCountMatches ==
    pc = "annotated" =>
        \A i \in 1..Len(args[2]) : \A k \in 0..8 :
            HasLabel(result[1], args[2][i] \o Stars(k))
            => k = MatchCount(args[1], args[2][i])

\* C6: the result holds one entry for each distinct candidate passed in, a
\* candidate without matching spelling appearing with no asterisk.
EveryCandidateListed ==
    pc = "annotated" =>
        /\ Len(result[1]) = Cardinality({args[2][i] : i \in 1..Len(args[2])})
        /\ \A i \in 1..Len(args[2]) :
               /\ \E k \in 0..8 : HasLabel(result[1], args[2][i] \o Stars(k))
               /\ MatchCount(args[1], args[2][i]) = 0
                      => HasLabel(result[1], args[2][i])

(***************************************************************************)
(* compare                                                                 *)
(***************************************************************************)

\* most calls of compare in one run
MaxCalls == 2

\* the divisor of the progress report, int(len(data)/100)
ProgressSteps == 100

\* count_comparisons(d): the loop adds 2, 3, ..., d to j = 1 and is not
\* entered for d < 2
count_comparisons(d) == IF d < 2 THEN 1 ELSE (d * (d + 1)) \div 2

\* '%i entries, %i comparisons' % (n, count_comparisons(n))
entries_line(n) ==
    format_i(n) \o <<" ", "e", "n", "t", "r", "i", "e", "s", ",", " ">>
        \o format_i(count_comparisons(n))
        \o <<" ", "c", "o", "m", "p", "a", "r", "i", "s", "o", "n", "s">>

\* '%i / %i' % (index, n)
progress_line(index, n) ==
    format_i(index) \o <<" ", "/", " ">> \o format_i(n)

\* list.index(w): the 0-based position of the first element equal to w
index_of(list, w) ==
    (CHOOSE i \in 1..Len(list) :
         list[i] = w /\ \A k \in 1..(i - 1) : list[k] # w) - 1

\* the body of the inner loop: whether w2 is recorded under w1, that is,
\* the length gate lets the pair through and the score is within min_val
is_edge(w1, w2) ==
    LET gap == IF Len(w1) >= Len(w2) THEN Len(w1) - Len(w2)
               ELSE Len(w2) - Len(w1)
    IN  /\ ~(gap > 3)
        /\ score_strings(w1, w2) <= (IF Len(w1) >= 8 THEN 2 ELSE 1)

\* the words the inner loop records under w1: those of data[index+1:] that
\* pass its test, in order
edge_row(keys, w1) ==
    SelectSeq(SubSeq(keys, index_of(keys, w1) + 2, Len(keys)),
              LAMBDA w2 : is_edge(w1, w2))

\* the rows of all words, in the order of the keys
edge_rows(keys) == [i \in 1..Len(keys) |-> edge_row(keys, keys[i])]

\* the position, from 1, of the first word whose row is to be appended to a
\* value that is a str, which has no append; 0 when there is none
first_str_append(keys, rows, dict) ==
    LET blocked == {i \in 1..Len(keys) :
                       /\ dict_has(dict, keys[i])
                       /\ dict_get(dict, keys[i]).type = "str"
                       /\ rows[i] # <<>>}
    IN  IF blocked = {} THEN 0
        ELSE CHOOSE i \in blocked : \A j \in blocked : i <= j

\* the outer loop `for w1 in data` over the keys of a dict, which are
\* pairwise different, after the iterations of the first `upto` words: the
\* row of a word is appended to the list the mapping holds for it, and a
\* word without list gets its row as a new entry, in the order of the keys
compare_loop(keys, rows, dict, upto) ==
    LET row_of(w) == IF \E i \in 1..upto : keys[i] = w
                     THEN rows[index_of(keys, w) + 1] ELSE <<>>
        updated == [k \in 1..Len(dict) |->
                       IF row_of(dict[k][1]) = <<>> THEN dict[k]
                       ELSE <<dict[k][1],
                              list_value(dict[k][2].value
                                             \o row_of(dict[k][1]))>>]
        fresh   == SelectSeq([i \in 1..upto |-> i],
                             LAMBDA i : rows[i] # <<>>
                                        /\ ~dict_has(dict, keys[i]))
    IN  updated \o [k \in 1..Len(fresh) |->
                       <<keys[fresh[k]], list_value(rows[fresh[k]])>>]

\* the progress lines of the first `upto` iterations of the outer loop: one
\* for every index in range(0, n, step)
progress_lines(n, step, upto) ==
    LET shown == SelectSeq([k \in 1..upto |-> k - 1],
                           LAMBDA index : index % step = 0)
    IN  [k \in 1..Len(shown) |-> progress_line(shown[k], n)]

\* compare(data): range() raises ValueError for a step of 0, before the
\* first pair is looked at; the edges go to the global `dictionary`, and
\* the append to a str that merge_entries left raises AttributeError
Compare ==
    /\ pc \in {"loaded", "compared", "merged"}
    /\ calls < MaxCalls
    /\ calls' = calls + 1
    /\ LET keys == dict_keys(data)
           n    == Len(keys)
           step == n \div ProgressSteps
       IN  IF step = 0
           THEN /\ stdout' = Append(stdout, entries_line(n))
                /\ raised' = "ValueError"
                /\ pc' = "aborted"
                /\ UNCHANGED dictionary
           ELSE LET rows == edge_rows(keys)
                    bad  == first_str_append(keys, rows, dictionary)
                IN  IF bad # 0
                    THEN /\ stdout' = Append(stdout, entries_line(n))
                                          \o progress_lines(n, step, bad)
                         /\ dictionary' = compare_loop(keys, rows,
                                                       dictionary, bad - 1)
                         /\ raised' = "AttributeError"
                         /\ pc' = "aborted"
                    ELSE /\ stdout' = Append(stdout, entries_line(n))
                                          \o progress_lines(n, step, n)
                         /\ dictionary' = compare_loop(keys, rows,
                                                       dictionary, n)
                         /\ pc' = "compared"
                         /\ UNCHANGED raised
    /\ UNCHANGED <<args, result, data, merges>>

(***************************************************************************)
(* merge_entries                                                           *)
(***************************************************************************)

RECURSIVE merge_vals(_, _, _, _)
\* the loop `for val in dic[key]` from the position p on, obj being the
\* elements of the object the loop runs over: a list grows under the loop
\* by `dic[key] += dic[val]`, a str is left as it was.  list += str adds
\* the characters of the str, str += list raises TypeError
merge_vals(dic, key, obj, p) ==
    IF p > Len(obj) THEN [raised |-> "", value |-> dic]
    ELSE IF ~dict_has(dic, obj[p]) THEN merge_vals(dic, key, obj, p + 1)
    ELSE LET val == obj[p]
             cur == dict_get(dic, key)
             add == dict_get(dic, val)
         IN  IF cur.type = "str" /\ add.type = "list"
             THEN [raised |-> "TypeError", value |-> dic]
             ELSE LET sum   == IF cur.type = "list"
                               THEN list_value(cur.value \o elements(add))
                               ELSE str_value(cur.value \o add.value)
                      grown == IF cur.type = "list" THEN sum.value ELSE obj
                  IN  merge_vals(dict_set(dict_set(dic, key, sum),
                                          val, str_value(Absorbed)),
                                 key, grown, p + 1)

RECURSIVE merge_keys(_, _)
\* the loop `for key in dic.keys()` from the i-th key on; no key is added
\* or removed under the loop
merge_keys(dic, i) ==
    IF i > Len(dic) THEN [raised |-> "", value |-> dic]
    ELSE LET r == merge_vals(dic, dic[i][1], elements(dic[i][2]), 1)
         IN  IF r.raised # "" THEN r ELSE merge_keys(r.value, i + 1)

\* merge_entries(dic): the mapping it leaves and the exception raised
merge_entries(dic) == merge_keys(dic, 1)

\* merge_entries(dictionary), the call print_results holds commented out,
\* made on the mapping compare has left
MergeEntries ==
    /\ pc = "compared"
    /\ merges' = merges + 1
    /\ LET r == merge_entries(dictionary)
       IN  /\ dictionary' = r.value
           /\ raised' = r.raised
           /\ pc' = IF r.raised = "" THEN "merged" ELSE "aborted"
    /\ UNCHANGED <<args, result, data, stdout, calls>>

(***************************************************************************)
(* get_freq, print_results                                                 *)
(***************************************************************************)

\* the printable ASCII characters, from the space (code 32) on
Ascii ==
    <<" ", "!", "\"", "#", "$", "%", "&", "'", "(", ")", "*", "+", ",",
      "-", ".", "/", "0", "1", "2", "3", "4", "5", "6", "7", "8", "9", ":",
      ";", "<", "=", ">", "?", "@", "A", "B", "C", "D", "E", "F", "G", "H",
      "I", "J", "K", "L", "M", "N", "O", "P", "Q", "R", "S", "T", "U", "V",
      "W", "X", "Y", "Z", "[", "\\", "]", "^", "_", "U+0060", "a", "b", "c",
      "d", "e", "f", "g", "h", "i", "j", "k", "l", "m", "n", "o", "p", "q",
      "r", "s", "t", "u", "v", "w", "x", "y", "z", "{", "|", "}", "~">>

\* ord(c)
CodePoint(c) ==
    CASE c = "\t" -> 9
      [] c = "U+014A" -> 330
      [] c = "U+014B" -> 331
      [] c = "U+0160" -> 352
      [] c = "U+0161" -> 353
      [] c = "U+2013" -> 8211
      [] c = "U+2082" -> 8322
      [] OTHER -> 31 + CHOOSE i \in 1..Len(Ascii) : Ascii[i] = c

RECURSIVE str_less(_, _)
\* a < b for strings: by the first differing code point, a proper prefix
\* coming first
str_less(a, b) ==
    IF b = <<>> THEN FALSE
    ELSE IF a = <<>> THEN TRUE
    ELSE IF Head(a) = Head(b) THEN str_less(Tail(a), Tail(b))
    ELSE CodePoint(Head(a)) < CodePoint(Head(b))

RECURSIVE sorted_set(_)
\* sorted(list(set(labels))) for the set S of the labels
sorted_set(S) ==
    IF S = {} THEN <<>>
    ELSE LET least == CHOOSE x \in S : \A y \in S : x = y \/ str_less(x, y)
         IN  <<least>> \o sorted_set(S \ {least})

\* re.sub('[...]', '', l): en dash, star, space, question mark, square
\* brackets and digits are deleted
sub_label(l) ==
    SelectSeq(l, LAMBDA c :
                     c \notin Digits \cup {"U+2013", "*", " ", "?", "[", "]"})

RECURSIVE get_freq(_, _)
\* get_freq(lemmas, show_freqs): data[...] of a name absent from the store
\* raises KeyError
get_freq(lemmas, show_freqs) ==
    IF ~show_freqs \/ lemmas = <<>> THEN [raised |-> "", value |-> lemmas]
    ELSE LET l == Head(lemmas)
         IN  IF ~dict_has(data, sub_label(l))
             THEN [raised |-> "KeyError", value |-> <<>>]
             ELSE LET rest == get_freq(Tail(lemmas), show_freqs)
                      freq == dict_get(data, sub_label(l))[1]
                  IN  IF rest.raised # "" THEN rest
                      ELSE [raised |-> "",
                            value  |-> <<l \o <<" ", "(">> \o format_i(freq)
                                            \o <<")">> >> \o rest.value]

\* x in list
InList(list, x) == \E i \in 1..Len(list) : list[i] = x

\* the line print_results prints for the key k, or the exception raised
result_line(k, show_freqs) ==
    LET held     == elements(dict_get(dictionary, k))
        results  == IF InList(held, Absorbed)
                    THEN SelectSeq(held, LAMBDA x : x # Absorbed)
                    ELSE held
        filt_res == compare_xlits(k, results)
        head     == get_freq(<<k>>, show_freqs)
        labels   == get_freq(filt_res.value, show_freqs)
    IN  IF filt_res.raised # "" THEN filt_res
        ELSE IF head.raised # "" THEN head
        ELSE IF labels.raised # "" THEN labels
        ELSE [raised |-> "",
              value  |-> head.value[1] \o <<"\t", "\t", "\t">>
                             \o join(<<" ", "|", " ">>,
                                     sorted_set({labels.value[i] :
                                         i \in 1..Len(labels.value)}))]

RECURSIVE print_loop(_, _, _)
\* the loop `for k in dictionary.keys()`: the lines printed and the
\* exception that stopped the loop; a key holding '_' prints nothing
print_loop(keys, show_freqs, printed) ==
    IF keys = <<>> THEN [raised |-> "", value |-> printed]
    ELSE IF /\ dict_get(dictionary, Head(keys)).type = "str"
            /\ dict_get(dictionary, Head(keys)).value = Absorbed
    THEN print_loop(Tail(keys), show_freqs, printed)
    ELSE LET line == result_line(Head(keys), show_freqs)
         IN  IF line.raised # ""
             THEN [raised |-> line.raised, value |-> printed]
             ELSE print_loop(Tail(keys), show_freqs,
                             Append(printed, line.value))

\* print_results(show_freqs)
PrintResults ==
    /\ pc \in {"compared", "merged"}
    /\ \E show_freqs \in BOOLEAN :
          LET r == print_loop(dict_keys(dictionary), show_freqs, <<>>)
          IN  /\ stdout' = stdout \o r.value
              /\ raised' = r.raised
              /\ pc' = IF r.raised = "" THEN "printed" ELSE "aborted"
    /\ UNCHANGED <<args, result, data, dictionary, calls, merges>>

(***************************************************************************)
(* The script: read_file, compare, merge_entries, print_results            *)
(***************************************************************************)

\* most lemma lines in a file ahead of the filler lines
MaxLemmas == 3

\* the letters the filler lemmas are made of
FillerLetters == <<"a", "b", "c", "d", "e", "f", "g", "h", "i", "j", "k">>

\* the i-th filler lemma: two letters and a check letter, so that two
\* filler lemmas differ in two places at least
filler(i) ==
    LET tens == (i \div 10) % 11
        ones == i % 10
    IN  <<FillerLetters[tens + 1], FillerLetters[ones + 1],
          FillerLetters[((tens + ones) % 11) + 1]>>

\* n filler lines of the frequency format
filler_freq_lines(n) ==
    [i \in 1..n |-> freq_line(<<"1">>, filler(i - 1), <<filler(i - 1)>>)]

\* n filler lines of the plain list format
filler_list_lines(n) == [i \in 1..n |-> filler(i - 1)]

\* lines of files read in the 'freq' format, the last two of them not of
\* that format
FreqLines ==
    {freq_line(<<"8">>, <<"B", "a", "b", "i", "l">>,
               << <<"b", "a", "-", "b", "i", "l">>,
                  <<"{", "U", "R", "U", "}", "b", "a", "b">> >>),
     freq_line(<<"1", "2">>, <<"B", "a", "b", "i", "l", "u">>,
               << <<"B", "A", ".", "B", "I", "L">> >>),
     freq_line(<<"3">>, <<"B", "a", "b", "i", "l", "i">>,
               << <<"b", "a", "b">> >>),
     freq_line(<<"2">>, <<"B", "a", "r", "s", "i", "p", "a">>,
               << <<"b", "a", "r", "-", "s", "i", "p">> >>),
     freq_line(<<"1">>, <<"B", "a", "r", "s", "i", "p", "a", "k", "i">>,
               << <<"b", "a", "r", "-", "s", "i", "p", "U+2082">> >>),
     <<"3", " ", "A", "b", "a">>,
     <<"b", "a", "b", "i", "l">>}

\* lines of files read as plain lists
ListLines ==
    {<<"b", "a", "b", "i", "l">>,
     <<"B", "a", "b", "i", "l", "u">>,
     <<"B", "a", "b", "i", "l", "2">>,
     <<"B", "a", "r", "s", "i", "p", "a">>,
     <<"B", "a", "r", "s", "i", "p", "a", "k", "i">>}

\* the files and the format each is read in: some lemma lines, alone or
\* followed by enough filler lines for the progress report to have a step
ScriptInputs ==
    {<<head \o filler_freq_lines(pad), "freq">> :
        head \in ArrangementsUpTo(FreqLines, MaxLemmas),
        pad \in {0, ProgressSteps}}
    \cup
    {<<head \o filler_list_lines(pad), "list">> :
        head \in ArrangementsUpTo(ListLines, MaxLemmas),
        pad \in {0, ProgressSteps}}

Init ==
    /\ pc = "start"
    /\ args \in ScriptInputs
    /\ result = <<>>
    /\ Idle

Next == ReadFile \/ Compare \/ MergeEntries \/ PrintResults

Spec == Init /\ [][Next]_vars

\* the candidate list the mapping holds for w, empty when it holds none
candidates_of(w) ==
    IF dict_has(dictionary, w) THEN dict_get(dictionary, w).value ELSE <<>>

\* C1: after compare ran once on the loaded store, starting from the empty
\* mapping, and with merge_entries not called, w2 is a candidate of w1
\* exactly when w1 precedes w2 in the order of the keys, their lengths
\* differ by 3 at most and their score is at most 2 for a w1 of 8
\* characters or more, else at most 1.
EdgesCharacterized ==
    (calls = 1 /\ merges = 0) =>
        \A i, j \in 1..Len(data) :
            LET w1 == data[i][1]
                w2 == data[j][1]
            IN  InList(candidates_of(w1), w2)
                <=> /\ i < j
                    /\ Len(w1) - Len(w2) <= 3
                    /\ Len(w2) - Len(w1) <= 3
                    /\ score_strings(w1, w2)
                           <= (IF Len(w1) >= 8 THEN 2 ELSE 1)

\* C5: for an empty store compare completes normally and leaves the
\* mapping empty, and print_results prints no line.
EmptyStoreCompared ==
    (args[1] = <<>> /\ calls > 0) =>
        /\ raised = ""
        /\ pc \in {"compared", "printed"}
        /\ dictionary = <<>>
        /\ \A i \in 1..Len(stdout) :
               stdout[i] \in {reading_line(FileName), entries_line(0)}

\* C10: whatever the number of compare calls made on the store, and with
\* merge_entries not called, every candidate list of the mapping is
\* non-empty, lists its candidates in the order of the keys and holds no
\* candidate twice.
ListsAreSinglePass ==
    merges = 0 =>
        \A k \in 1..Len(dictionary) :
            LET list == dictionary[k][2].value
                keys == dict_keys(data)
            IN  /\ list # <<>>
                /\ \A i, j \in 1..Len(list) :
                       i < j => index_of(keys, list[i])
                                    < index_of(keys, list[j])

====
